---- MODULE Spec2Model ----
(***************************************************************************)
(* A model of server/managers/PluginLoader.ts: the plugin activation       *)
(* orchestrator.  One top-level loadPlugin call is a stack of loadPlugin   *)
(* activations (the chain of awaits); one step of the model runs the code  *)
(* from the resumption of an awaited import to the next awaited import.    *)
(* The schema files that loadDBSchema hands to glob's callback run as      *)
(* detached tasks: nothing awaits them.                                    *)
(***************************************************************************)
EXTENDS Integers, Sequences, FiniteSets, TLC

VARIABLES
    deps,           \* the manifests on disk: plugin id -> manifest.server.dependencies
    pluginsLoaded,  \* PluginLoader._pluginsLoaded (an array: duplicates are possible)
    instances,      \* the keys of PluginManager.instances, in insertion order
    constructed,    \* plugin id -> number of times its Server was constructed and stored
    mounted,        \* plugin id -> number of times its Router.init ran
    lookups,        \* plugin id -> number of manifest imports started
    prepared,       \* plugin id -> number of preparePlugin (loadDBSchema) calls
    globsPending,   \* plugin id -> glob calls of loadDBSchema whose callback has not run yet
    schemaRunning,  \* plugin id -> per-file async callbacks started by forEach, not yet settled
    schemaRejected, \* plugin ids with a per-file callback that rejected (SCHEMA_LOADER_FAILED)
    calls,          \* the top-level loadPlugin calls made so far
    heap,           \* the configuration objects: reference -> fields
    config,         \* PluginLoader._config: the reference the constructor stored
    configRead      \* what the stages found in this.config each time they read it, and
                    \* what the caller's configuration object held at that moment

schemaVars == <<globsPending, schemaRunning, schemaRejected>>
cfgVars == <<heap, config>>
vars == <<deps, pluginsLoaded, instances, constructed, mounted, lookups, prepared,
          schemaVars, calls, cfgVars, configRead>>

----------------------------------------------------------------------------
(* Bounds and inputs *)

SmallPlugins == {"A", "B"}
NoPlugin == "none"

MaxCalls == 2       \* top-level loadPlugin calls per process run
MaxSchemas == 1     \* schema*.json files glob reports for one plugin
MaxDeps == 1        \* length of a dependency list in the enumerated manifests

SeqsUpTo(S, n) == UNION {[1..k -> S] : k \in 0..n}

\* A plugin base path: the plugin ids under it and the dependency list of each.
Chain == ("A" :> <<>>) @@ ("B" :> <<"A">>) @@ ("C" :> <<"B">>)
Diamond == ("A" :> <<>>) @@ ("B" :> <<"A">>) @@ ("C" :> <<"A">>) @@ ("D" :> <<"B", "C">>)
Cycle3 == ("A" :> <<"B">>) @@ ("B" :> <<"C">>) @@ ("C" :> <<"A">>)
TwoDeps == ("A" :> <<>>) @@ ("B" :> <<>>) @@ ("C" :> <<"A", "B">>)

\* every dependency graph over SmallPlugins with lists of at most MaxDeps ids:
\* self-dependencies and the cycle A -> B -> A are among them
SmallGraphs == [SmallPlugins -> SeqsUpTo(SmallPlugins, MaxDeps)]

Graphs == SmallGraphs \cup {Chain, Diamond, Cycle3, TwoDeps}

Plugins == DOMAIN deps
StackCap == Cardinality(Plugins) + 1   \* nesting beyond this is not explored

\* the plugins that have schema*.json files under their db directory, and how
\* many glob reports for a plugin
WithSchema == {"A"}
SchemaFiles(p) == IF p \in WithSchema THEN MaxSchemas ELSE 0

----------------------------------------------------------------------------
(* Values *)

MANIFEST_NOT_FOUND == "MANIFEST_NOT_FOUND"
PLUGIN_LOAD_FAILED == "PLUGIN_LOAD_FAILED"
ROUTE_REGISTRY_FAILED == "ROUTE_REGISTRY_FAILED"
SCHEMA_LOADER_FAILED == "SCHEMA_LOADER_FAILED"

\* what a catch block receives: import's module-not-found error, whose message
\* holds the path it was asked for, or whatever the plugin's own code threw
ModuleNotFound(id, file) == [name |-> "MODULE_NOT_FOUND", path |-> <<id, file>>]
Thrown == [name |-> "Error", path |-> <<>>]
Causes(id, file) == {ModuleNotFound(id, file), Thrown}

NoError == [code |-> "none", rootError |-> Thrown]

\* new FrameworkError({code: ..., rootError: err})
FrameworkError(code, err) == [code |-> code, rootError |-> err]

\* one activation of loadPlugin, suspended at an await:
\*   pc "manifest": in getManifest, awaiting import(.../manifest)
\*   pc "deps":     in loadDependencies, awaiting loadPlugin(dependencies[i])
\*   pc "server":   in instantiatePlugin, awaiting import(.../server)
\*   pc "routes":   in registerRoutes, awaiting import(.../routes)
\* awaited: the dependencies whose loadPlugin this activation has awaited to its return
NewFrame(id) == [id |-> id, pc |-> "manifest", i |-> 0, awaited |-> {}]

NewCall(id, loaded) ==
    [id |-> id, stack |-> <<NewFrame(id)>>, result |-> "pending", error |-> NoError,
     startedEmpty |-> (loaded = <<>>),
     alreadyClaimed |-> (\E k \in 1..Len(loaded) : loaded[k] = id),
     failedPlugin |-> NoPlugin, lookupFailed |-> NoPlugin, aborted |-> {}, steps |-> 0]

Range(s) == {s[k] : k \in 1..Len(s)}
Occurrences(s, x) == Cardinality({k \in 1..Len(s) : s[k] = x})

\* The configuration the caller hands to the constructor, held by reference.
\* pluginBasePath is the field the loader reads; db stands for any object
\* nested in the configuration (FrameworkConfig is declared outside this file).
BasePaths == {"plugins/", "elsewhere/"}
DbHosts == {"db-1", "db-2"}
CallerConfig ==
    ("caller" :> [pluginBasePath |-> "plugins/", db |-> "callerDb"])
    @@ ("callerDb" :> [host |-> "db-1"])

\* everything that can be read through reference r
DeepValue(h, r) == [pluginBasePath |-> h[r].pluginBasePath, db |-> h[h[r].db]]

----------------------------------------------------------------------------
(* The pure pieces of the loader *)

\* the constructor, had it kept the caller's object: this._config = config
CloneDeep_Alias(h, r) == [ref |-> r, heap |-> h]

\* the constructor, had it copied one level only: _.clone(config)
CloneDeep_Shallow(h, r) == [ref |-> "loader", heap |-> h @@ ("loader" :> h[r])]

\* _.cloneDeep(config): new objects for the configuration and for what it
\* refers to, with the same contents
CloneDeep(h, r) ==
    [ref |-> "loader",
     heap |-> h @@ ("loader" :> [h[r] EXCEPT !.db = "loaderDb"])
                @@ ("loaderDb" :> h[h[r].db])]

\* get config(): a stage reads this.config
ReadConfig ==
    configRead' = configRead \cup
        {[used |-> DeepValue(heap, config), callers |-> DeepValue(heap, "caller")]}

\* this._pluginsLoaded.indexOf(id) != -1
Contains(s, x) == \E k \in 1..Len(s) : s[k] = x

\* the guard of loadDependencies, had it been left out
NotLoaded_NoGuard(loaded, d) == TRUE

\* the guard of loadDependencies, had it been written != -1
NotLoaded_Inverted(loaded, d) == Contains(loaded, d)

\* the guard of loadDependencies
NotLoaded(loaded, d) == ~Contains(loaded, d)

\* Step 1 of loadPlugin, had it assigned a new array instead of pushing
Claim_Reset(loaded, id) == <<id>>

\* Step 1 of loadPlugin, had the push been forgotten
Claim_Forgotten(loaded, id) == loaded

\* Step 1 of loadPlugin: this._pluginsLoaded.push(plugin.id)
Claim(loaded, id) == Append(loaded, id)

\* the for loop of loadDependencies from index j on: the index of the first
\* dependency the guard lets through, 0 when the loop runs to its end
RECURSIVE NextDependency(_, _, _)
NextDependency(ds, j, loaded) ==
    IF j > Len(ds) THEN 0
    ELSE IF NotLoaded(loaded, ds[j]) THEN j
    ELSE NextDependency(ds, j + 1, loaded)

\* PluginManager.instances[manifest.id] = pluginInstance
StoreInstance(keys, id) == IF Contains(keys, id) THEN keys ELSE Append(keys, id)

\* a rejection thrown in the top activation, had loadDependencies caught it
\* around its await and gone on with the next dependency
Propagate_Caught(stk) == SubSeq(stk, 1, Len(stk) - 1)

\* a rejection thrown in the top activation: loadDependencies and loadPlugin
\* have no try/catch, so it passes through every awaiting activation
Propagate(stk) == <<>>

----------------------------------------------------------------------------
Init ==
    /\ deps \in Graphs
    /\ pluginsLoaded = <<>>
    /\ instances = <<>>
    /\ constructed = [p \in Plugins |-> 0]
    /\ mounted = [p \in Plugins |-> 0]
    /\ lookups = [p \in Plugins |-> 0]
    /\ prepared = [p \in Plugins |-> 0]
    /\ globsPending = [p \in Plugins |-> 0]
    /\ schemaRunning = [p \in Plugins |-> 0]
    /\ schemaRejected = {}
    /\ calls = <<>>
    /\ heap = CloneDeep(CallerConfig, "caller").heap
    /\ config = CloneDeep(CallerConfig, "caller").ref
    /\ configRead = {}

Top(stk) == stk[Len(stk)]
Pending(c) == c \in 1..Len(calls) /\ calls[c].result = "pending"
At(c, pc) == Pending(c) /\ Top(calls[c].stack).pc = pc
Step(cr) == [cr EXCEPT !.steps = @ + 1]

\* The activation on top of stk goes on in loadDependencies at index j: it
\* claims the next unclaimed dependency and suspends in that dependency's
\* getManifest, or leaves the loop, calls preparePlugin (loadDBSchema starts
\* the glob and returns) and suspends in instantiatePlugin.
Proceed(c, cr, stk, j) ==
    LET top == Top(stk)
        ds == deps[top.id]
        k == NextDependency(ds, j, pluginsLoaded)
    IN IF k # 0
       THEN /\ Len(stk) < StackCap
            /\ ReadConfig
            /\ pluginsLoaded' = Claim(pluginsLoaded, ds[k])
            /\ lookups' = [lookups EXCEPT ![ds[k]] = @ + 1]
            /\ calls' = [calls EXCEPT ![c] = [cr EXCEPT !.stack =
                   Append([stk EXCEPT ![Len(stk)] = [top EXCEPT !.pc = "deps", !.i = k]],
                          NewFrame(ds[k]))]]
            /\ UNCHANGED <<prepared, schemaVars>>
       ELSE /\ ReadConfig
            /\ prepared' = [prepared EXCEPT ![top.id] = @ + 1]
            /\ globsPending' = [globsPending EXCEPT ![top.id] = @ + 1]
            /\ UNCHANGED <<schemaRunning, schemaRejected>>
            /\ calls' = [calls EXCEPT ![c] = [cr EXCEPT !.stack =
                   [stk EXCEPT ![Len(stk)] = [top EXCEPT !.pc = "server", !.i = Len(ds) + 1]]]]
            /\ UNCHANGED <<pluginsLoaded, lookups>>

\* A stage of the top activation throws FrameworkError(code, err).  With
\* Propagate as the code has it nothing is left to resume and the top-level
\* promise rejects.
Raise(c, cr, code, err) ==
    LET stk == cr.stack
        rest == Propagate(stk)
    IN IF rest = <<>>
       THEN /\ calls' = [calls EXCEPT ![c] = [cr EXCEPT
                   !.stack = <<>>, !.result = "failed",
                   !.error = FrameworkError(code, err),
                   !.failedPlugin = Top(stk).id,
                   !.aborted = {stk[k].id : k \in 1..Len(stk)}]]
            /\ UNCHANGED <<pluginsLoaded, lookups, prepared, schemaVars, configRead>>
       ELSE Proceed(c, cr, rest, Top(rest).i + 1)

\* a top-level loadPlugin(p), up to its first await
LoadPlugin(p) ==
    /\ Len(calls) < MaxCalls
    /\ pluginsLoaded' = Claim(pluginsLoaded, p)
    /\ lookups' = [lookups EXCEPT ![p] = @ + 1]
    /\ calls' = Append(calls, NewCall(p, pluginsLoaded))
    /\ ReadConfig
    /\ UNCHANGED <<deps, instances, constructed, mounted, prepared, schemaVars, cfgVars>>

\* a top-level loadPlugin made when every earlier one has returned or failed
Call(p) ==
    /\ \A c \in 1..Len(calls) : calls[c].result # "pending"
    /\ LoadPlugin(p)

\* getManifest: the import resolves, Manifest.fromJSON returns.  The test of
\* Step 3 compares typeof's result with undefined and is always true, so
\* loadDependencies runs for every manifest.
ManifestFound(c) ==
    /\ At(c, "manifest")
    /\ Proceed(c, Step(calls[c]), calls[c].stack, 1)
    /\ UNCHANGED <<deps, instances, constructed, mounted, cfgVars>>

\* getManifest: the import rejects or Manifest.fromJSON throws
ManifestNotFound(c) ==
    /\ At(c, "manifest")
    /\ \E err \in Causes(Top(calls[c].stack).id, "manifest") :
          Raise(c, [Step(calls[c]) EXCEPT !.lookupFailed = Top(calls[c].stack).id],
                MANIFEST_NOT_FOUND, err)
    /\ UNCHANGED <<deps, instances, constructed, mounted, cfgVars>>

\* instantiatePlugin: import and constructor succeed, the instance is stored;
\* registerRoutes starts its import
ServerLoaded(c) ==
    /\ At(c, "server")
    /\ LET cr == calls[c]
           top == Top(cr.stack)
       IN /\ instances' = StoreInstance(instances, top.id)
          /\ constructed' = [constructed EXCEPT ![top.id] = @ + 1]
          /\ calls' = [calls EXCEPT ![c] = [Step(cr) EXCEPT
                 !.stack = [cr.stack EXCEPT ![Len(cr.stack)] = [top EXCEPT !.pc = "routes"]]]]
    /\ ReadConfig
    /\ UNCHANGED <<deps, pluginsLoaded, mounted, lookups, prepared, schemaVars, cfgVars>>

\* instantiatePlugin: the import or the constructor throws
ServerFailed(c) ==
    /\ At(c, "server")
    /\ \E err \in Causes(Top(calls[c].stack).id, "server") :
          Raise(c, Step(calls[c]), PLUGIN_LOAD_FAILED, err)
    /\ UNCHANGED <<deps, instances, constructed, mounted, cfgVars>>

\* registerRoutes succeeds and loadPlugin returns: to the caller, or to the
\* loadDependencies loop of the requesting activation
RoutesRegistered(c) ==
    /\ At(c, "routes")
    /\ LET cr == Step(calls[c])
           stk == cr.stack
           top == Top(stk)
           n == Len(stk)
       IN /\ mounted' = [mounted EXCEPT ![top.id] = @ + 1]
          /\ IF n = 1
             THEN /\ calls' = [calls EXCEPT ![c] = [cr EXCEPT !.stack = <<>>, !.result = "ok"]]
                  /\ UNCHANGED <<pluginsLoaded, lookups, prepared, schemaVars, configRead>>
             ELSE LET rest == [SubSeq(stk, 1, n - 1) EXCEPT
                                  ![n - 1].awaited = @ \cup {top.id}]
                  IN Proceed(c, cr, rest, stk[n - 1].i + 1)
    /\ UNCHANGED <<deps, instances, constructed, cfgVars>>

\* registerRoutes: getRouter, the import, the constructor or init throws
RoutesFailed(c) ==
    /\ At(c, "routes")
    /\ \E err \in Causes(Top(calls[c].stack).id, "routes") :
          Raise(c, Step(calls[c]), ROUTE_REGISTRY_FAILED, err)
    /\ UNCHANGED <<deps, instances, constructed, mounted, cfgVars>>

\* glob's callback for one loadDBSchema call of plugin p: files.forEach starts
\* one async callback per file, none of them awaited (a plugin without schema
\* files gets an empty list)
GlobCallback(p) ==
    /\ globsPending[p] > 0
    /\ globsPending' = [globsPending EXCEPT ![p] = @ - 1]
    /\ schemaRunning' = [schemaRunning EXCEPT ![p] = @ + SchemaFiles(p)]
    /\ UNCHANGED <<deps, pluginsLoaded, instances, constructed, mounted, lookups,
                   prepared, schemaRejected, calls, cfgVars, configRead>>

\* one per-file callback runs to its end: the schema file is imported,
\* getLoader finds the loader and schemaLoader.create resolves
SchemaActivated(p) ==
    /\ schemaRunning[p] > 0
    /\ schemaRunning' = [schemaRunning EXCEPT ![p] = @ - 1]
    /\ UNCHANGED <<deps, pluginsLoaded, instances, constructed, mounted, lookups,
                   prepared, globsPending, schemaRejected, calls, cfgVars, configRead>>

\* the import, getLoader or create throws: the catch rethrows a FrameworkError
\* with SCHEMA_LOADER_FAILED inside the callback, whose promise nothing awaits;
\* the runtime reports an unhandled rejection and the loader goes on
SchemaFailed(p) ==
    /\ schemaRunning[p] > 0
    /\ schemaRunning' = [schemaRunning EXCEPT ![p] = @ - 1]
    /\ schemaRejected' = schemaRejected \cup {p}
    /\ UNCHANGED <<deps, pluginsLoaded, instances, constructed, mounted, lookups,
                   prepared, globsPending, calls, cfgVars, configRead>>

\* The caller changes its own configuration object after the constructor has
\* returned: the base path, or a field of the nested object.
MutateConfig ==
    /\ \/ \E v \in BasePaths \ {heap["caller"].pluginBasePath} :
             heap' = [heap EXCEPT !["caller"].pluginBasePath = v]
       \/ \E v \in DbHosts \ {heap[heap["caller"].db].host} :
             heap' = [heap EXCEPT ![heap["caller"].db].host = v]
    /\ UNCHANGED <<deps, pluginsLoaded, instances, constructed, mounted, lookups,
                   prepared, schemaVars, calls, config, configRead>>

\* the steps of one top-level call
CallStep(c) ==
    \/ ManifestFound(c)
    \/ ManifestNotFound(c)
    \/ ServerLoaded(c)
    \/ ServerFailed(c)
    \/ RoutesRegistered(c)
    \/ RoutesFailed(c)

Calls == 1..Len(calls)

\* The caller awaits each loadPlugin before it makes the next one.
Next ==
    \/ \E p \in Plugins : Call(p)
    \/ \E c \in Calls : ManifestFound(c)
    \/ \E c \in Calls : ManifestNotFound(c)
    \/ \E c \in Calls : ServerLoaded(c)
    \/ \E c \in Calls : ServerFailed(c)
    \/ \E c \in Calls : RoutesRegistered(c)
    \/ \E c \in Calls : RoutesFailed(c)
    \/ \E p \in Plugins : GlobCallback(p)
    \/ \E p \in Plugins : SchemaActivated(p)
    \/ \E p \in Plugins : SchemaFailed(p)

Spec == Init /\ [][Next]_vars

\* one top-level loadPlugin on a fresh PluginLoader, and nothing after it
FirstCall(p) == calls = <<>> /\ Call(p)

NextSingle ==
    \/ \E p \in Plugins : FirstCall(p)
    \/ ManifestFound(1)
    \/ ManifestNotFound(1)
    \/ ServerLoaded(1)
    \/ ServerFailed(1)
    \/ RoutesRegistered(1)
    \/ RoutesFailed(1)
    \/ \E p \in Plugins : GlobCallback(p)
    \/ \E p \in Plugins : SchemaActivated(p)
    \/ \E p \in Plugins : SchemaFailed(p)

SingleCall == Init /\ [][NextSingle]_vars

\* a second top-level loadPlugin, made when the first has returned or failed
AwaitedCall(p) == Len(calls) = 1 /\ Call(p)

\* Two top-level calls on a fresh PluginLoader, the second after the first.
NextSequential ==
    \/ \E p \in Plugins : FirstCall(p)
    \/ \E p \in Plugins : AwaitedCall(p)
    \/ \E c \in Calls : ManifestFound(c)
    \/ \E c \in Calls : ManifestNotFound(c)
    \/ \E c \in Calls : ServerLoaded(c)
    \/ \E c \in Calls : ServerFailed(c)
    \/ \E c \in Calls : RoutesRegistered(c)
    \/ \E c \in Calls : RoutesFailed(c)
    \/ \E p \in Plugins : GlobCallback(p)
    \/ \E p \in Plugins : SchemaActivated(p)
    \/ \E p \in Plugins : SchemaFailed(p)

Sequential == Init /\ [][NextSequential]_vars

\* a second top-level loadPlugin that the caller makes without awaiting the
\* first: it may start while the first is suspended at an import
SecondCall(p) == Len(calls) = 1 /\ LoadPlugin(p)

\* Two top-level calls on a fresh PluginLoader, interleaving at their awaits.
NextConcurrent ==
    \/ \E p \in Plugins : FirstCall(p)
    \/ \E p \in Plugins : SecondCall(p)
    \/ \E c \in Calls : ManifestFound(c)
    \/ \E c \in Calls : ManifestNotFound(c)
    \/ \E c \in Calls : ServerLoaded(c)
    \/ \E c \in Calls : ServerFailed(c)
    \/ \E c \in Calls : RoutesRegistered(c)
    \/ \E c \in Calls : RoutesFailed(c)
    \/ \E p \in Plugins : GlobCallback(p)
    \/ \E p \in Plugins : SchemaActivated(p)
    \/ \E p \in Plugins : SchemaFailed(p)

Concurrent == Init /\ [][NextConcurrent]_vars

\* one top-level call, with a caller that goes on changing its configuration
NextConfigured ==
    \/ MutateConfig
    \/ NextSingle

Configured == Init /\ [][NextConfigured]_vars

----------------------------------------------------------------------------
(* Vocabulary of the properties *)

\* the plugins reachable from the set S along dependency lists, S included
RECURSIVE Closure(_)
Closure(S) ==
    LET T == S \cup UNION {Range(deps[q]) : q \in S}
    IN IF T = S THEN S ELSE Closure(T)

Reach(p) == Closure({p})
TransDeps(p) == Closure(Range(deps[p]))
Acyclic == \A p \in Plugins : p \notin TransDeps(p)

Position(keys, x) == CHOOSE k \in 1..Len(keys) : keys[k] = x

\* no schema work of plugin p is outstanding
SchemaSettled(p) == globsPending[p] = 0 /\ schemaRunning[p] = 0

\* p has been through preparePlugin, instantiatePlugin and registerRoutes, and
\* every schema activation started for it has come to an end
Complete(p) ==
    /\ prepared[p] > 0
    /\ SchemaSettled(p)
    /\ Contains(instances, p)
    /\ mounted[p] > 0

\* p has had no stage after its claim and manifest lookup
Untouched(p) ==
    /\ prepared[p] = 0
    /\ constructed[p] = 0
    /\ mounted[p] = 0
    /\ ~Contains(instances, p)

StackIds(stk) == {stk[k].id : k \in 1..Len(stk)}

\* no collaborator has failed so far
NoFailure ==
    /\ schemaRejected = {}
    /\ \A c \in 1..Len(calls) : calls[c].result # "failed"

----------------------------------------------------------------------------
(* Properties *)

\* C1: a top-level loadPlugin started with an empty _pluginsLoaded terminates on
\* every dependency graph, cyclic ones included: the activations nested at any
\* moment are of distinct plugins, so their number is at most the number of
\* plugin ids; the call takes at most three import steps per plugin; and while
\* it has not settled, its next step is enabled.
C1_Terminates ==
    \A c \in 1..Len(calls) :
        calls[c].startedEmpty =>
            /\ Len(calls[c].stack) <= Cardinality(Plugins)
            /\ Cardinality(StackIds(calls[c].stack)) = Len(calls[c].stack)
            /\ calls[c].steps <= 3 * Cardinality(Plugins)
            /\ calls[c].result = "pending" => ENABLED CallStep(c)

\* a call on a graph with a cycle through two plugins has returned, both loaded
C1_CycleReturned ==
    /\ Len(calls) = 1
    /\ calls[1].startedEmpty
    /\ calls[1].result = "ok"
    /\ \E p, q \in Plugins :
          /\ p # q
          /\ q \in Range(deps[p])
          /\ p \in Range(deps[q])
          /\ constructed[p] = 1
          /\ constructed[q] = 1

\* C2: in a single top-level call started with an empty _pluginsLoaded and with
\* no failing collaborator, no plugin is claimed, instantiated or given its
\* routes more than once, and when the call has returned every plugin
\* reachable from the requested one has been claimed, instantiated and given
\* its routes exactly once.
C2_LoadedOnce ==
    (Len(calls) = 1 /\ calls[1].startedEmpty /\ NoFailure) =>
        /\ \A p \in Plugins :
              /\ Occurrences(pluginsLoaded, p) <= 1
              /\ constructed[p] <= 1
              /\ mounted[p] <= 1
        /\ calls[1].result = "ok" =>
              \A p \in Reach(calls[1].id) :
                  /\ Occurrences(pluginsLoaded, p) = 1
                  /\ constructed[p] = 1
                  /\ mounted[p] = 1

\* loadPlugin(D) on the diamond has returned with no failure
C2_DiamondLoaded ==
    /\ deps = Diamond
    /\ Len(calls) = 1
    /\ calls[1].id = "D"
    /\ calls[1].result = "ok"
    /\ NoFailure
    /\ constructed["A"] = 1

\* C3: a top-level loadPlugin for an id that is already in _pluginsLoaded does
\* no stage work: while it is the latest call, _pluginsLoaded, the instances,
\* the routes and the counts of manifest lookups, constructions and route
\* registrations do not change.
C3_SecondCallNoOp ==
    [][(Len(calls') > 0 /\ calls'[Len(calls')].alreadyClaimed) =>
           UNCHANGED <<pluginsLoaded, instances, constructed, mounted, lookups, prepared>>]_vars

\* C4: whenever an activation of loadPlugin exists, every dependency its
\* loadDependencies has awaited is complete, schema activations included: so
\* D1 is complete when D2 is claimed, and both are when P's own schema stage
\* begins.
C4_DependencyCompleteBeforeNext ==
    \A c \in 1..Len(calls) :
        \A k \in 1..Len(calls[c].stack) :
            \A d \in calls[c].stack[k].awaited : Complete(d)

\* C5: a plugin with a failed schema activation is never instantiated and gets
\* no routes, and no loadPlugin for it reports success.
C5_SchemaFailureAborts ==
    \A p \in schemaRejected :
        /\ ~Contains(instances, p)
        /\ mounted[p] = 0
        /\ \A c \in 1..Len(calls) : calls[c].id = p => calls[c].result # "ok"

\* C6: when a manifest lookup fails during a top-level call on a fresh loader,
\* the call fails at once with MANIFEST_NOT_FOUND; from then on the failing
\* plugin, the plugins that were waiting for it and the plugins not yet claimed
\* have had no schema, instantiate or route stage, and every other claimed
\* plugin keeps its instance and its routes.
C6_LookupFailureAborts ==
    (Len(calls) = 1 /\ calls[1].lookupFailed # NoPlugin) =>
        /\ calls[1].result = "failed"
        /\ calls[1].error.code = MANIFEST_NOT_FOUND
        /\ calls[1].stack = <<>>
        /\ calls[1].lookupFailed \in calls[1].aborted
        /\ \A p \in Plugins :
              IF p \in calls[1].aborted \/ ~Contains(pluginsLoaded, p)
              THEN Untouched(p)
              ELSE /\ Contains(instances, p)
                   /\ constructed[p] = 1
                   /\ mounted[p] = 1
                   /\ prepared[p] = 1

\* the manifest of a dependency was missing after another dependency had been
\* loaded, and a plugin was still unclaimed
C6_DependencyLookupFailed ==
    /\ Len(calls) = 1
    /\ calls[1].lookupFailed \notin {NoPlugin, calls[1].id}
    /\ calls[1].result = "failed"
    /\ instances # <<>>
    /\ Cardinality(calls[1].aborted) >= 2

\* what the error of a failed call tells its receiver: the stage, from the
\* code, and the plugin, from the path of a module-not-found root error; a
\* FrameworkError has no field for the plugin id
ErrorStage(e) ==
    CASE e.code = MANIFEST_NOT_FOUND -> "manifest"
      [] e.code = SCHEMA_LOADER_FAILED -> "schema"
      [] e.code = PLUGIN_LOAD_FAILED -> "server"
      [] e.code = ROUTE_REGISTRY_FAILED -> "routes"
      [] OTHER -> "none"

ErrorPlugin(e) ==
    IF "pluginId" \in DOMAIN e THEN e.pluginId
    ELSE IF e.rootError.path # <<>> THEN e.rootError.path[1]
    ELSE NoPlugin

\* C7: the error of a failed top-level call names a stage and the plugin whose
\* stage failed, also when that plugin is a dependency.
C7_ErrorNamesStageAndPlugin ==
    \A c \in 1..Len(calls) :
        calls[c].result = "failed" =>
            /\ ErrorStage(calls[c].error) # "none"
            /\ ErrorPlugin(calls[c].error) = calls[c].failedPlugin

\* C8: on an acyclic graph and a fresh loader, when a plugin is in its
\* instantiate or route stage (its schema stage has begun), every dependency
\* in its manifest is complete, schema activations included.
C8_DependenciesBeforeOwnStages ==
    (Len(calls) = 1 /\ Acyclic) =>
        \A k \in 1..Len(calls[1].stack) :
            calls[1].stack[k].pc \in {"server", "routes"} =>
                \A d \in Range(deps[calls[1].stack[k].id]) : Complete(d)

\* C9: on an acyclic graph and a fresh loader, every stored instance was
\* stored after the instances of all its transitive dependencies, and when
\* the call has returned the requested plugin and all its transitive
\* dependencies are stored.
C9_PostOrder ==
    (Len(calls) = 1 /\ calls[1].startedEmpty /\ Acyclic) =>
        /\ \A p \in Range(instances) :
              \A d \in TransDeps(p) :
                  /\ Contains(instances, d)
                  /\ Position(instances, d) < Position(instances, p)
        /\ calls[1].result = "ok" =>
              \A p \in Reach(calls[1].id) : Contains(instances, p)

\* loadPlugin(C) on the chain C -> B -> A has returned
C9_ChainLoaded ==
    /\ deps = Chain
    /\ Len(calls) = 1
    /\ calls[1].id = "C"
    /\ calls[1].result = "ok"
    /\ NoFailure
    /\ instances = <<"A", "B", "C">>

\* C10: a call that has reported success has completed all stages of the
\* requested plugin: its schema activations have all ended, none of them in
\* error, and it is instantiated and has its routes.
C10_SuccessMeansComplete ==
    \A c \in 1..Len(calls) :
        calls[c].result = "ok" =>
            /\ Complete(calls[c].id)
            /\ calls[c].id \notin schemaRejected

IsPrefix(s, t) == Len(s) <= Len(t) /\ SubSeq(t, 1, Len(s)) = s

\* C11: after any sequence of top-level loadPlugin calls, _pluginsLoaded holds
\* no plugin id twice.
C11_ClaimedAtMostOnce ==
    \A p \in Plugins : Occurrences(pluginsLoaded, p) <= 1

\* C12: _pluginsLoaded only grows: every step leaves the ids it holds in place,
\* whatever stage succeeds or fails in that step.
C12_ClaimsOnlyGrow ==
    [][IsPrefix(pluginsLoaded, pluginsLoaded')]_vars

\* a call has failed after its claim, in a stage of a dependency, and the ids
\* of the requested plugin and of the dependency are still claimed
C12_ClaimedAfterFailure ==
    \E c \in 1..Len(calls) :
        /\ calls[c].result = "failed"
        /\ calls[c].failedPlugin # calls[c].id
        /\ calls[c].error.code \in {PLUGIN_LOAD_FAILED, ROUTE_REGISTRY_FAILED}
        /\ Contains(pluginsLoaded, calls[c].id)
        /\ Contains(pluginsLoaded, calls[c].failedPlugin)

\* C13: the stages of one plugin form a strictly sequential pipeline: while a
\* plugin is in its instantiate or route stage, none of its schema work is
\* outstanding.
C13_SchemaBeforeInstantiate ==
    \A c \in 1..Len(calls) :
        \A k \in 1..Len(calls[c].stack) :
            calls[c].stack[k].pc \in {"server", "routes"} =>
                SchemaSettled(calls[c].stack[k].id)

\* C14: on a fresh loader a failure of instantiatePlugin or registerRoutes
\* ends the top-level call: the failing plugin has no routes, and no instance
\* when its instantiation failed; the plugins that were waiting for it have
\* had no schema, instantiate or route stage; and as long as the call has not
\* failed, every load that has returned has both stored its instance and
\* registered its routes.
C14_StageFailureAborts ==
    Len(calls) = 1 =>
        /\ calls[1].error.code \in {PLUGIN_LOAD_FAILED, ROUTE_REGISTRY_FAILED} =>
              /\ calls[1].result = "failed"
              /\ calls[1].stack = <<>>
              /\ mounted[calls[1].failedPlugin] = 0
              /\ calls[1].error.code = PLUGIN_LOAD_FAILED =>
                    /\ constructed[calls[1].failedPlugin] = 0
                    /\ ~Contains(instances, calls[1].failedPlugin)
              /\ \A p \in calls[1].aborted \ {calls[1].failedPlugin} : Untouched(p)
        /\ calls[1].result # "failed" =>
              \A p \in Range(pluginsLoaded) \ StackIds(calls[1].stack) :
                  constructed[p] = 1 /\ mounted[p] = 1

\* the instantiation of a dependency failed while another plugin was waiting
\* for it and a further dependency had been loaded before
C14_DependencyStageFailed ==
    /\ Len(calls) = 1
    /\ calls[1].result = "failed"
    /\ calls[1].error.code = PLUGIN_LOAD_FAILED
    /\ calls[1].failedPlugin # calls[1].id
    /\ instances # <<>>

\* C16: whatever the caller does to its configuration object after the
\* constructor, every stage finds in this.config, base path and nested object
\* included, what the caller's object held at construction.
C16_ConfigSnapshot ==
    \A r \in configRead : r.used = DeepValue(CallerConfig, "caller")

\* a stage has read this.config while the caller's object held another base
\* path and another nested value
C16_ReadAfterMutation ==
    \E r \in configRead :
        /\ r.callers.pluginBasePath # CallerConfig["caller"].pluginBasePath
        /\ r.callers.db # CallerConfig["callerDb"]
        /\ \E p \in Plugins : constructed[p] > 0

\* both top-level calls are suspended at an await
BothInFlight ==
    /\ Len(calls) = 2
    /\ calls[1].result = "pending"
    /\ calls[2].result = "pending"

\* the plugins no top-level call has asked for
DependenciesOnly == Plugins \ {calls[c].id : c \in 1..Len(calls)}

\* C15: with two top-level calls in flight at once, a plugin that is loaded
\* only as a dependency is claimed at most once, and is constructed and has
\* its routes mounted at most once.
C15_SharedDependencyOnce ==
    \A d \in DependenciesOnly :
        /\ Occurrences(pluginsLoaded, d) <= 1
        /\ constructed[d] <= 1
        /\ mounted[d] <= 1

\* loadPlugin(B) and loadPlugin(C) on the diamond's B -> A, C -> A: both are
\* in flight, both are past their dependencies, and A has been claimed,
\* constructed and mounted once
C15_BothPastSharedDependency ==
    /\ deps = Diamond
    /\ BothInFlight
    /\ {calls[1].id, calls[2].id} = {"B", "C"}
    /\ \A c \in 1..2 : Top(calls[c].stack).id = calls[c].id
                         /\ Top(calls[c].stack).pc \in {"server", "routes"}
    /\ Occurrences(pluginsLoaded, "A") = 1
    /\ constructed["A"] = 1
    /\ mounted["A"] = 1

\* the activations, of either call, whose plugin is in its instantiate or
\* route stage
Instantiating ==
    UNION {{calls[c].stack[k] : k \in {j \in 1..Len(calls[c].stack) :
                                        calls[c].stack[j].pc \in {"server", "routes"}}} :
           c \in 1..Len(calls)}

\* the two top-level calls are for distinct plugins
DistinctCalls == \A c, e \in 1..Len(calls) : calls[c].id = calls[e].id => c = e

\* C17 as stated: with two top-level calls for distinct plugins on an acyclic
\* graph and no failing collaborator, a plugin in its instantiate or route
\* stage has every dependency constructed and mounted.
C17_DependenciesDoneBeforeInstantiate ==
    (Acyclic /\ NoFailure /\ DistinctCalls) =>
        \A f \in Instantiating :
            \A d \in Range(deps[f.id]) : constructed[d] > 0 /\ mounted[d] > 0

\* C17, amended: with two top-level calls for distinct plugins on an acyclic
\* graph and no failing collaborator, a plugin in its instantiate or route
\* stage has every dependency claimed, and every dependency its own activation
\* loaded constructed and mounted; a dependency it skipped because the other
\* call had claimed it may still be loading.
C17_DependenciesClaimedBeforeInstantiate ==
    (Acyclic /\ NoFailure /\ DistinctCalls) =>
        \A f \in Instantiating :
            \A d \in Range(deps[f.id]) :
                /\ Contains(pluginsLoaded, d)
                /\ d \in f.awaited => constructed[d] > 0 /\ mounted[d] > 0

\* loadPlugin(B) and loadPlugin(C) on the diamond are both in flight: one is
\* in its instantiate or route stage after it loaded A itself, the other
\* after it skipped A
C17_LoadedAndSkipped ==
    /\ deps = Diamond
    /\ NoFailure
    /\ BothInFlight
    /\ {calls[1].id, calls[2].id} = {"B", "C"}
    /\ \E f, g \in Instantiating :
          /\ f.id # g.id
          /\ f.awaited = {"A"}
          /\ g.awaited = {}

====
